---- MODULE Spec2Model ----
(***************************************************************************)
(* Model of the Meshtastic device session (src/src/meshDevice.ts): the     *)
(* send pipeline (sendPacket, sendText, sendRaw, configure), the transmit  *)
(* queue it drives, the fromRadio demultiplexer and the configuration      *)
(* lifecycle.                                                              *)
(*                                                                         *)
(* The Queue class (./utils/index.ts) is not among the sources; its        *)
(* operations push, processQueue, processAck, processError, wait and clear *)
(* are modelled from section 4.2 of the specification.                     *)
(*                                                                         *)
(* The runtime is single-threaded and cooperative: a handler runs          *)
(* uninterrupted up to its first await, and the continuations of a settled *)
(* promise run before the next transport event or caller invocation.  One  *)
(* action is therefore one such run.  A handler is written as the sequence *)
(* of effects its code performs, in program order (the events dispatched,  *)
(* the calls into the queue), and the action applies them one by one.      *)
(***************************************************************************)
EXTENDS Integers, Sequences, FiniteSets, TLC

VARIABLES
    deviceStatus,            \* MeshDevice.deviceStatus
    isConfigured,            \* MeshDevice.isConfigured
    pendingSettingsChanges,  \* MeshDevice.pendingSettingsChanges
    myNodeNum,               \* MeshDevice.myNodeInfo.myNodeNum
    configId,                \* MeshDevice.configId
    queue,                   \* Queue: entries (seq, id, data, state) in insertion order
    futures,                 \* the waiter of every entry ever pushed, by push number
    slot,                    \* the queue's single in-flight slot: a push number, or 0
    writing,                 \* frames (push numbers) whose writeToRadio has not completed
    wres,                    \* outcome of the completed write the drain has yet to read
    written,                 \* frames in the order writeToRadio was called
    calls,                   \* the send invocations: entry, position, promise
    statusLog,               \* statuses seen by the onDeviceStatus subscribers, in order
    fromRadio                \* case and number of the last message dispatched on onFromRadio

vars == <<deviceStatus, isConfigured, pendingSettingsChanges, myNodeNum, configId,
          queue, futures, slot, writing, wres, written, calls, statusLog,
          fromRadio>>

\* The session's own fields.
session == <<deviceStatus, isConfigured, pendingSettingsChanges, myNodeNum, statusLog,
             fromRadio>>

----------------------------------------------------------------------------
\* Bounds of the model.

\* Number of send invocations (sendPacket, sendText, configure) in a run.
MaxCalls == 2

\* Number of sends in a run of the transmission-order behaviour (SpecOrder).
MaxBurst == 3

\* Number of statuses observed in a run in which updateDeviceStatus is called
\* from outside (SpecStatus).
MaxStatusLog == 3

----------------------------------------------------------------------------
\* Program constants and the inputs of the model.

\* sendRaw rejects a serialized frame longer than this.
MaxFrameLen == 512

\* broadcastNum of ./constants.ts: 0xFFFFFFFF.  Node numbers are 32-bit
\* unsigned; a value v >= 2^31 is written v - 2^32, so 0xFFFFFFFF is -1.
broadcastNum == -1

\* Lockstep identifier handed to the constructor.
LockstepId == 66

\* Bytes toBinary adds around the payload of a mesh packet (tags, lengths, the
\* fixed fields).  The schema library decides the value; the model needs only
\* that the frame is longer than its payload.
PacketOverhead == 24

\* Values crypto.getRandomValues may yield (a sample of the 32-bit range).
Seeds == {0, 5, 9}

\* Node numbers a myInfo message may carry; a fresh MyNodeInfo has myNodeNum 0.
NodeNums == {7}

\* Nodes other than this device.
RemoteNodes == {9}

\* Bytes of the rxTime field (a tag and a fixed32), which sendPacket sets on
\* the packet it echoes, and so on the frame it serializes afterwards.
RxTimeLen == 5

\* Payload lengths around the limit: a frame that fits with and without
\* rxTime, one that fits only without, one that never fits.
PayloadLens == {MaxFrameLen - PacketOverhead - RxTimeLen,
                MaxFrameLen - PacketOverhead,
                MaxFrameLen - PacketOverhead + 1}

\* Types.Destination: "broadcast", "self" or a node number.
Destination(kind, num) == [kind |-> kind, num |-> num]

Destinations == {Destination("broadcast", 0), Destination("self", 0)}
                \cup {Destination("node", n) : n \in RemoteNodes}

SendPorts == {"TEXT_MESSAGE_APP", "ADMIN_APP"}

\* Types.DeviceStatusEnum, as the specification lists the statuses.
DeviceStatuses ==
    {"DeviceDisconnected", "DeviceConnecting", "DeviceConnected", "DeviceConfiguring",
     "DeviceConfigured", "DeviceReconnecting", "DeviceDisconnecting",
     "DeviceFirmwareUpdate", "DeviceRestarting"}

----------------------------------------------------------------------------
\* generateRandId: Math.floor(seed * 2 ** -32 * 1e9), and a throw on seed 0.
\* 1e9 / 2^32 = 1953125 / 8388608.

randFails(seed) == seed = 0

generateRandId(seed) == (seed * 1953125) \div 8388608

\* Ids the model's seeds generate.
Ids == {generateRandId(s) : s \in Seeds \ {0}}

\* Length of toBinary(ToRadioSchema, {packet: meshPacket}) for a payload
\* length; an echoed packet carries rxTime.
encodedLen(payloadLen, echoResponse) ==
    payloadLen + PacketOverhead + (IF echoResponse THEN RxTimeLen ELSE 0)

----------------------------------------------------------------------------
\* Promise states.

Unsettled == [st |-> "pending", v |-> "none", id |-> 0]

Resolved(id) == [st |-> "resolved", v |-> "id", id |-> id]

Rejected(reason) == [st |-> "rejected", v |-> reason, id |-> 0]

\* A MeshPacket: the fields the session reads or writes.
MeshPacket(variant, from, to, id, portnum, channel, requestId, rcase, reason) ==
    [variant |-> variant, from |-> from, to |-> to, id |-> id, portnum |-> portnum,
     channel |-> channel, requestId |-> requestId, rcase |-> rcase, reason |-> reason]

NoPacket == MeshPacket("none", 0, 0, 0, "none", "Primary", 0, "unset", "NONE")

\* A ToRadio or FromRadio message: its payloadVariant case and value.
Message(case, value, packet) == [case |-> case, value |-> value, packet |-> packet]

NoMessage == Message("none", 0, NoPacket)

----------------------------------------------------------------------------
\* Effects.  A synchronous handler is modelled by the sequence of effects its
\* code performs, in program order: the events it dispatches on the bus, its
\* calls into the queue, and a final throw when it raises.

Effect(e, n, r, m) == [e |-> e, n |-> n, r |-> r, m |-> m]

dispatch(event, n, r) == Effect(event, n, r, NoMessage)

dispatchPacket(event, p) == Effect(event, 0, "", Message("packet", 0, p))

throw(reason) == Effect("throw", 0, reason, NoMessage)

Threw(t) == Len(t) > 0 /\ t[Len(t)].e = "throw"

\* t1 and then t2, unless t1 raised.
andThen(t1, t2) == IF Threw(t1) THEN t1 ELSE t1 \o t2

\* promise.catch(() => {}): the rejection is swallowed.
caught(t) == IF Threw(t) THEN SubSeq(t, 1, Len(t) - 1) \o <<dispatch("catch", 0, t[Len(t)].r)>>
             ELSE t

Has(t, e) == \E i \in 1..Len(t) : t[i].e = e

----------------------------------------------------------------------------
\* Transmit queue (specification section 4.2).

Terminal(state) == state \in {"Acked", "Errored"}

\* Queue.push: a new entry in Pending state at the end, with a fresh waiter.
queuePush(q, seq, id, data) ==
    Append(q, [seq |-> seq, id |-> id, data |-> data, state |-> "Pending"])

\* Queue.processAck: the entries with this id go from Sent to Acked.
ackQueue(q, id) ==
    [k \in 1..Len(q) |->
        IF q[k].id = id /\ q[k].state = "Sent"
        THEN [q[k] EXCEPT !.state = "Acked"] ELSE q[k]]

ackFutures(q, f, id) ==
    [n \in 1..Len(f) |->
        IF \E k \in 1..Len(q) : q[k].seq = n /\ q[k].id = id /\ q[k].state = "Sent"
        THEN Resolved(id) ELSE f[n]]

\* Queue.processError: the non-terminal entries with this id become Errored.
errorQueue(q, id) ==
    [k \in 1..Len(q) |->
        IF q[k].id = id /\ ~Terminal(q[k].state)
        THEN [q[k] EXCEPT !.state = "Errored"] ELSE q[k]]

errorFutures(q, f, id, reason) ==
    [n \in 1..Len(f) |->
        IF \E k \in 1..Len(q) : q[k].seq = n /\ q[k].id = id /\ ~Terminal(q[k].state)
        THEN Rejected(reason) ELSE f[n]]

\* Queue.clear: the non-terminal entries are dropped, their waiters cancelled.
clearQueue(q) == SelectSeq(q, LAMBDA e : Terminal(e.state))

clearFutures(q, f) ==
    [n \in 1..Len(f) |->
        IF \E k \in 1..Len(q) : q[k].seq = n /\ ~Terminal(q[k].state)
        THEN Rejected("Cancelled") ELSE f[n]]

\* Positions of the Pending entries.
PendingIdx(q) == {k \in 1..Len(q) : q[k].state = "Pending"}

\* A drain that takes the Pending entry pushed last.
lastPending(q) == CHOOSE k \in PendingIdx(q) : \A j \in PendingIdx(q) : k >= j

\* The Pending entry the drain transfers next: the first in insertion order.
nextPending(q) == CHOOSE k \in PendingIdx(q) : \A j \in PendingIdx(q) : k <= j

\* Position in the queue of the entry with a push number, 0 when it was dropped.
idxOf(q, s) == IF \E k \in 1..Len(q) : q[k].seq = s
               THEN CHOOSE k \in 1..Len(q) : q[k].seq = s ELSE 0

----------------------------------------------------------------------------
\* Queue.processQueue (specification section 4.2): concurrent calls share one
\* in-flight slot.  A call finds the slot taken and waits, or takes it and
\* hands the first Pending entry to the write callback, which calls
\* writeToRadio; the entry is Sent.
drainStart(S) ==
    IF S.slot = 0 /\ PendingIdx(S.queue) # {}
    THEN LET k == nextPending(S.queue) IN
         [S EXCEPT !.queue[k].state = "Sent",
                   !.slot = S.queue[k].seq,
                   !.writing = @ \cup {S.queue[k].seq},
                   !.written = Append(@, S.queue[k].seq)]
    ELSE S

----------------------------------------------------------------------------
\* The state a handler works on, and the effect of each step on it.

Handled == [deviceStatus |-> deviceStatus, isConfigured |-> isConfigured,
            pendingSettingsChanges |-> pendingSettingsChanges,
            myNodeNum |-> myNodeNum, statusLog |-> statusLog,
            queue |-> queue, futures |-> futures, slot |-> slot,
            writing |-> writing, written |-> written,
            fromRadio |-> fromRadio]

\* The constructor's onDeviceStatus subscriber.
onDeviceStatus(S, status) ==
    [S EXCEPT !.deviceStatus = status,
              !.isConfigured = IF status = "DeviceConfigured" THEN TRUE
                               ELSE IF status = "DeviceConfiguring" THEN FALSE
                               ELSE @,
              !.statusLog = Append(@, status)]

\* The constructor's onMyNodeInfo subscriber.
onMyNodeInfo(S, num) == [S EXCEPT !.myNodeNum = num]

\* The constructor's onPendingSettingsChange subscriber.
onPendingSettingsChange(S, state) == [S EXCEPT !.pendingSettingsChanges = state]

\* What an onFromRadio subscriber keeps of a message: the payloadVariant case
\* and the number it carries (of a mesh packet, the requestId and the sender).
Decoded(m) == [case |-> m.case,
               value |-> IF m.case = "packet" THEN m.packet.requestId ELSE m.value,
               from |-> IF m.case = "packet" THEN m.packet.from ELSE 0]

step(S, x) ==
    CASE x.e = "onDeviceStatus" -> onDeviceStatus(S, x.r)
      [] x.e = "onMyNodeInfo" -> onMyNodeInfo(S, x.n)
      [] x.e = "onPendingSettingsChange" -> onPendingSettingsChange(S, x.n = 1)
      [] x.e = "queue.push" ->
            [S EXCEPT !.queue = queuePush(@, Len(S.futures) + 1, x.n, x.m),
                      !.futures = Append(@, Unsettled)]
      [] x.e = "onFromRadio" -> [S EXCEPT !.fromRadio = Decoded(x.m)]
      [] x.e = "queue.processQueue" -> drainStart(S)
      [] x.e = "writeToRadio" ->
            [S EXCEPT !.writing = @ \cup {0}, !.written = Append(@, 0)]
      [] x.e = "queue.processAck" ->
            [S EXCEPT !.queue = ackQueue(@, x.n),
                      !.futures = ackFutures(S.queue, @, x.n)]
      [] x.e = "queue.processError" ->
            [S EXCEPT !.queue = errorQueue(@, x.n),
                      !.futures = errorFutures(S.queue, @, x.n, x.r)]
      [] x.e = "queue.clear" ->
            [S EXCEPT !.queue = clearQueue(@),
                      !.futures = clearFutures(S.queue, @)]
      [] OTHER -> S

RECURSIVE run(_, _)
run(S, t) == IF t = <<>> THEN S ELSE run(step(S, Head(t)), Tail(t))

\* A send that follows its waiter only when the waiter resolves: a rejection
\* of the waiter is lost.
settleResolvedOnly(cs, f) ==
    [c \in 1..Len(cs) |->
        IF cs[c].pc = "wait" /\ f[cs[c].seq].st = "resolved"
        THEN [cs[c] EXCEPT !.pc = "done", !.res = f[cs[c].seq]]
        ELSE cs[c]]

\* A send awaiting the waiter of its entry (`return this.queue.wait(id)`)
\* settles as soon as the waiter has.
settle(cs, f) ==
    [c \in 1..Len(cs) |->
        IF cs[c].pc = "wait" /\ f[cs[c].seq].st # "pending"
        THEN [cs[c] EXCEPT !.pc = "done", !.res = f[cs[c].seq]]
        ELSE cs[c]]

\* The handler whose effects are t runs to its end (or to its first await).
Does(t) ==
    LET S == run(Handled, t) IN
    /\ queue' = S.queue
    /\ futures' = S.futures
    /\ slot' = S.slot
    /\ writing' = S.writing
    /\ written' = S.written
    /\ deviceStatus' = S.deviceStatus
    /\ isConfigured' = S.isConfigured
    /\ pendingSettingsChanges' = S.pendingSettingsChanges
    /\ myNodeNum' = S.myNodeNum
    /\ statusLog' = S.statusLog
    /\ fromRadio' = S.fromRadio

----------------------------------------------------------------------------
\* An updateDeviceStatus that dispatches whatever the current status is.
updateDeviceStatusAlways(status) == <<dispatch("onDeviceStatus", 0, status)>>

\* updateDeviceStatus: the event is dispatched only on a change.
updateDeviceStatus(status) ==
    IF status # deviceStatus THEN <<dispatch("onDeviceStatus", 0, status)>> ELSE <<>>

\* A ROUTING_APP handler that settles the queue entry before it dispatches the
\* routing event.
routingPacketQueueFirst(p) ==
    (CASE p.rcase = "errorReason" ->
            IF p.reason = "NONE"
            THEN <<dispatch("queue.processAck", p.requestId, "")>>
            ELSE <<dispatch("queue.processError", p.requestId, p.reason)>>
       [] OTHER -> <<>>) \o
    <<dispatchPacket("onRoutingPacket", p)>> \o
    (IF p.rcase \in {"errorReason", "routeReply", "routeRequest"} THEN <<>>
     ELSE <<throw("Unhandled case")>>)

\* A ROUTING_APP handler that looks the send up under the routing packet's own
\* id instead of its requestId.
routingPacketByOwnId(p) ==
    <<dispatchPacket("onRoutingPacket", p)>> \o
    (CASE p.rcase = "errorReason" ->
            IF p.reason = "NONE"
            THEN <<dispatch("queue.processAck", p.id, "")>>
            ELSE <<dispatch("queue.processError", p.id, p.reason)>>
       [] p.rcase \in {"routeReply", "routeRequest"} -> <<>>
       [] OTHER -> <<throw("Unhandled case")>>)

\* A ROUTING_APP handler that takes every errorReason for an acknowledgement.
routingPacketAlwaysAck(p) ==
    <<dispatchPacket("onRoutingPacket", p)>> \o
    (CASE p.rcase = "errorReason" -> <<dispatch("queue.processAck", p.requestId, "")>>
       [] p.rcase \in {"routeReply", "routeRequest"} -> <<>>
       [] OTHER -> <<throw("Unhandled case")>>)

\* A ROUTING_APP handler that raises when the queue has no entry for the
\* requestId.
routingPacketKnownOnly(p) ==
    <<dispatchPacket("onRoutingPacket", p)>> \o
    (CASE p.rcase = "errorReason" ->
            IF \A k \in 1..Len(queue) : queue[k].id # p.requestId
            THEN <<throw("Packet does not exist")>>
            ELSE IF p.reason = "NONE"
            THEN <<dispatch("queue.processAck", p.requestId, "")>>
            ELSE <<dispatch("queue.processError", p.requestId, p.reason)>>
       [] p.rcase \in {"routeReply", "routeRequest"} -> <<>>
       [] OTHER -> <<throw("Unhandled case")>>)

\* handleDecodedPacket, ROUTING_APP: the routing event, then the queue.
routingPacket(p) ==
    <<dispatchPacket("onRoutingPacket", p)>> \o
    (CASE p.rcase = "errorReason" ->
            IF p.reason = "NONE"
            THEN <<dispatch("queue.processAck", p.requestId, "")>>
            ELSE <<dispatch("queue.processError", p.requestId, p.reason)>>
       [] p.rcase \in {"routeReply", "routeRequest"} -> <<>>
       [] OTHER -> <<throw("Unhandled case")>>)

\* handleDecodedPacket: the typed event of the port.
handleDecodedPacket(p) ==
    CASE p.portnum = "TEXT_MESSAGE_APP" -> <<dispatchPacket("onMessagePacket", p)>>
      [] p.portnum = "POSITION_APP" -> <<dispatchPacket("onPositionPacket", p)>>
      [] p.portnum = "ROUTING_APP" -> routingPacket(p)
      [] p.portnum = "ADMIN_APP" -> <<>>
      [] OTHER -> <<throw("Unhandled case")>>

\* A handleMeshPacket that passes the packet to its port handler before it
\* dispatches onMeshPacket and the heartbeat.
handleMeshPacketTypedFirst(p) ==
    (CASE p.variant = "decoded" -> handleDecodedPacket(p)
       [] p.variant = "encrypted" -> <<>>
       [] OTHER -> <<>>) \o
    <<dispatchPacket("onMeshPacket", p)>> \o
    (IF p.from # myNodeNum THEN <<dispatch("onMeshHeartbeat", 0, "")>> ELSE <<>>) \o
    (IF p.variant \in {"decoded", "encrypted"} THEN <<>> ELSE <<throw("Unhandled case")>>)

\* A handleMeshPacket that dispatches the heartbeat for decoded packets only.
handleMeshPacketBeatDecoded(p) ==
    <<dispatchPacket("onMeshPacket", p)>> \o
    (IF p.from # myNodeNum /\ p.variant = "decoded"
     THEN <<dispatch("onMeshHeartbeat", 0, "")>> ELSE <<>>) \o
    (CASE p.variant = "decoded" -> handleDecodedPacket(p)
       [] p.variant = "encrypted" -> <<>>
       [] OTHER -> <<throw("Unhandled case")>>)

\* handleMeshPacket.
handleMeshPacket(p) ==
    <<dispatchPacket("onMeshPacket", p)>> \o
    (IF p.from # myNodeNum THEN <<dispatch("onMeshHeartbeat", 0, "")>> ELSE <<>>) \o
    (CASE p.variant = "decoded" -> handleDecodedPacket(p)
       [] p.variant = "encrypted" -> <<>>
       [] OTHER -> <<throw("Unhandled case")>>)

----------------------------------------------------------------------------
\* sendRaw, sendPacket, sendText, configure, complete: each up to its first
\* suspension, the `await this.queue.processQueue(...)` of sendRaw.

\* A sendRaw whose limit is off by one: a frame of 512 bytes is rejected too.
sendRawBelowLimit(len, id, m) ==
    IF len >= MaxFrameLen
    THEN <<throw("Message longer than 512 bytes, it will not be sent!")>>
    ELSE <<Effect("queue.push", id, "", m), dispatch("queue.processQueue", 0, "")>>

\* A sendRaw that also writes its frame to the transport itself.
sendRawWritesItself(len, id, m) ==
    IF len > MaxFrameLen
    THEN <<throw("Message longer than 512 bytes, it will not be sent!")>>
    ELSE <<Effect("queue.push", id, "", m), Effect("writeToRadio", 0, "", m),
           dispatch("queue.processQueue", 0, "")>>

\* sendRaw: the length check, queue.push, and the call of processQueue.
sendRaw(len, id, m) ==
    IF len > MaxFrameLen
    THEN <<throw("Message longer than 512 bytes, it will not be sent!")>>
    ELSE <<Effect("queue.push", id, "", m), dispatch("queue.processQueue", 0, "")>>

\* sendRaw(toRadio) with the id defaulted to generateRandId().
sendRawDefault(len, seed, m) ==
    IF randFails(seed) THEN <<throw("Cannot generate CSPRN")>>
    ELSE sendRaw(len, generateRandId(seed), m)

\* A destination resolution that sends "self" to node 0, whatever the stored
\* my-node number.
resolveDestinationUnstored(destination) ==
    IF destination.kind = "broadcast" THEN broadcastNum
    ELSE IF destination.kind = "self" THEN 0
    ELSE destination.num

\* sendPacket: the `to` field of a destination.
resolveDestination(destination) ==
    IF destination.kind = "broadcast" THEN broadcastNum
    ELSE IF destination.kind = "self" THEN myNodeNum
    ELSE destination.num

\* The packet sendPacket builds.
meshPacketOf(portNum, destination, channel, seed) ==
    MeshPacket("decoded", myNodeNum, resolveDestination(destination),
               generateRandId(seed), portNum, channel, 0, "unset", "NONE")

\* A sendPacket that echoes the packet after it has handed it to sendRaw.
sendPacketEchoLast(payloadLen, portNum, destination, channel, echoResponse, seed) ==
    IF randFails(seed) THEN <<throw("Cannot generate CSPRN")>>
    ELSE LET meshPacket == meshPacketOf(portNum, destination, channel, seed) IN
         andThen(sendRaw(encodedLen(payloadLen, echoResponse), meshPacket.id,
                         Message("packet", 0, meshPacket)),
                 IF echoResponse THEN handleMeshPacket(meshPacket) ELSE <<>>)

\* sendPacket: with echoResponse the packet goes through handleMeshPacket
\* before sendRaw is called.
sendPacket(payloadLen, portNum, destination, channel, echoResponse, seed) ==
    IF randFails(seed) THEN <<throw("Cannot generate CSPRN")>>
    ELSE LET meshPacket == meshPacketOf(portNum, destination, channel, seed) IN
         andThen(IF echoResponse THEN handleMeshPacket(meshPacket) ELSE <<>>,
                 sendRaw(encodedLen(payloadLen, echoResponse), meshPacket.id,
                         Message("packet", 0, meshPacket)))

\* sendText: sendPacket on TEXT_MESSAGE_APP with echoResponse = true.
sendText(payloadLen, destination, seed) ==
    sendPacket(payloadLen, "TEXT_MESSAGE_APP", destination, "Primary", TRUE, seed)

\* The length of an encoded AdminMessage whose variant is a flag
\* (beginEditSettings, commitEditSettings: a two-byte tag and one byte).
EditLen == 3

\* The lengths of the encoded setConfig requests a caller sends.
ConfigLens == {8}

\* The destination "self".
Self == Destination("self", 0)

\* A beginEditSettings that sends its request without publishing the flag.
beginEditSettingsSilent(seed) ==
    sendPacket(EditLen, "ADMIN_APP", Self, "Primary", FALSE, seed)

\* beginEditSettings: onPendingSettingsChange(true) is dispatched, then the
\* request is sent.
beginEditSettings(seed) ==
    <<dispatch("onPendingSettingsChange", 1, "")>>
        \o sendPacket(EditLen, "ADMIN_APP", Self, "Primary", FALSE, seed)

\* commitEditSettings: onPendingSettingsChange(false) is dispatched, then the
\* request is sent.
commitEditSettings(seed) ==
    <<dispatch("onPendingSettingsChange", 0, "")>>
        \o sendPacket(EditLen, "ADMIN_APP", Self, "Primary", FALSE, seed)

\* setConfig: `if (!this.pendingSettingsChanges) await this.beginEditSettings()`.
setConfigBegins == ~pendingSettingsChanges

\* setConfig: the send of its own request, reached at once when no edit
\* session has to be opened and else after the awaited beginEditSettings.
setConfigRequest(len, seed) == sendPacket(len, "ADMIN_APP", Self, "Primary", FALSE, seed)

\* The operations that serialise one AdminMessage variant and hand it to
\* sendPacket with destination "self" and the default channel.
AdminOperations ==
    {"setModuleConfig", "setCannedMessages", "setOwner", "setChannel", "enterDfuMode",
     "getChannel", "getConfig", "getModuleConfig", "getOwner", "clearChannel",
     "resetNodes", "removeNodeByNum", "shutdown", "reboot", "rebootOta",
     "factoryResetDevice", "factoryResetConfig"}

\* With setPosition, which serialises a Position, the operations that send
\* one packet to "self".
SelfOperations == AdminOperations \cup {"setPosition"}

\* A port choice that puts every operation on ADMIN_APP.
portOfAdminOnly(op) == "ADMIN_APP"

\* The port each operation passes to sendPacket.
portOf(op) == IF op = "setPosition" THEN "POSITION_APP" ELSE "ADMIN_APP"

\* An operation of SelfOperations: `return await this.sendPacket(toBinary(...),
\* port, "self")`.
selfOperation(op, len, seed) == sendPacket(len, portOf(op), Self, "Primary", FALSE, seed)

\* getMetadata(nodeNum): the request goes to nodeNum on the Admin channel.
getMetadata(nodeNum, seed) ==
    sendPacket(EditLen, "ADMIN_APP", Destination("node", nodeNum), "Admin", FALSE, seed)

\* Length of a serialized wantConfigId message: a tag and a varint.
wantConfigLen == 6

\* A configure whose frame carries the id drawn for the send instead of the
\* session's configId.
configureDrawnId(seed) ==
    andThen(updateDeviceStatus("DeviceConfiguring"),
            sendRawDefault(wantConfigLen, seed,
                           Message("wantConfigId", generateRandId(seed), NoPacket)))

\* configure: the status goes to Configuring, then the wantConfigId frame is
\* sent raw under a generated id.
configure(seed) ==
    andThen(updateDeviceStatus("DeviceConfiguring"),
            sendRawDefault(wantConfigLen, seed, Message("wantConfigId", configId, NoPacket)))

\* complete: queue.clear().
complete == <<dispatch("queue.clear", 0, "")>>

----------------------------------------------------------------------------
\* handleFromRadio.

\* A demultiplexer that ignores `rebooted`.
handleFromRadioNoReconfigure(m, seed) ==
    <<Effect("onFromRadio", 0, "", m)>> \o
    (CASE m.case = "packet" -> handleMeshPacket(m.packet)
       [] m.case = "myInfo" -> <<dispatch("onMyNodeInfo", m.value, "")>>
       [] m.case = "configCompleteId" -> updateDeviceStatus("DeviceConfigured")
       [] m.case = "config" -> <<dispatch("onConfigPacket", 0, "")>>
       [] OTHER -> <<>>)

\* A demultiplexer that completes the configuration only on the expected id.
handleFromRadioLockstep(m, seed) ==
    <<Effect("onFromRadio", 0, "", m)>> \o
    (CASE m.case = "packet" -> handleMeshPacket(m.packet)
       [] m.case = "myInfo" -> <<dispatch("onMyNodeInfo", m.value, "")>>
       [] m.case = "configCompleteId" ->
            IF m.value = configId THEN updateDeviceStatus("DeviceConfigured") ELSE <<>>
       [] m.case = "rebooted" -> caught(configure(seed))
       [] m.case = "config" -> <<dispatch("onConfigPacket", 0, "")>>
       [] OTHER -> <<>>)

\* `seed` is what the random source yields if the handler draws an id.
handleFromRadio(m, seed) ==
    <<Effect("onFromRadio", 0, "", m)>> \o
    (CASE m.case = "packet" -> handleMeshPacket(m.packet)
       [] m.case = "myInfo" -> <<dispatch("onMyNodeInfo", m.value, "")>>
       [] m.case = "configCompleteId" -> updateDeviceStatus("DeviceConfigured")
       [] m.case = "rebooted" -> caught(configure(seed))
       [] m.case = "config" -> <<dispatch("onConfigPacket", 0, "")>>
       [] OTHER -> <<>>)

RoutingPacket(requestId, rcase, reason, from) ==
    MeshPacket("decoded", from, 0, 0, "ROUTING_APP", "Primary", requestId, rcase, reason)

\* The fromRadio messages of the model: routing replies to the ids in use,
AckMessage(i) ==
    Message("packet", 0, RoutingPacket(i, "errorReason", "NONE", CHOOSE n \in RemoteNodes : TRUE))

ErrorMessage(i, r) ==
    Message("packet", 0, RoutingPacket(i, "errorReason", r, CHOOSE n \in RemoteNodes : TRUE))

ErrorReasons == {"TIMEOUT", "NO_ROUTE"}

RoutingInbound ==
    {AckMessage(i) : i \in Ids} \cup {ErrorMessage(i, r) : i \in Ids, r \in ErrorReasons}

\* other mesh packets (a route reply, text from another node and from this
\* one, an encrypted packet, a packet with no payload variant),
PacketInbound ==
    {Message("packet", 0, RoutingPacket(0, "routeReply", "NONE", n)) : n \in RemoteNodes}
    \cup {Message("packet", 0,
                  MeshPacket("decoded", f, broadcastNum, 0, "TEXT_MESSAGE_APP",
                             "Primary", 0, "unset", "NONE")) : f \in RemoteNodes \cup NodeNums}
    \cup {Message("packet", 0,
                  MeshPacket(v, n, 0, 0, "none", "Primary", 0, "unset", "NONE")) :
              v \in {"encrypted", "undefined"}, n \in RemoteNodes}

\* route replies and requests that name the id of a send,
RouteInbound ==
    {Message("packet", 0, RoutingPacket(i, rc, "NONE", n)) :
        i \in Ids, rc \in {"routeReply", "routeRequest"}, n \in RemoteNodes}

\* and the messages of the configuration stream.
MyInfoMessage(n) == Message("myInfo", n, NoPacket)

ConfigCompleteMessage(id) == Message("configCompleteId", id, NoPacket)

ConfigInbound ==
    {MyInfoMessage(n) : n \in NodeNums}
    \cup {ConfigCompleteMessage(i) : i \in {LockstepId, LockstepId + 1}}
    \cup {Message("config", 0, NoPacket)}

Inbound == RoutingInbound \cup PacketInbound \cup RouteInbound \cup ConfigInbound

Rebooted == Message("rebooted", 1, NoPacket)

----------------------------------------------------------------------------
Init ==
    /\ deviceStatus = "DeviceDisconnected"
    /\ isConfigured = FALSE
    /\ pendingSettingsChanges = FALSE
    /\ myNodeNum = 0
    /\ configId = LockstepId
    /\ queue = <<>>
    /\ futures = <<>>
    /\ slot = 0
    /\ writing = {}
    /\ wres = "none"
    /\ written = <<>>
    /\ calls = <<>>
    /\ statusLog = <<"DeviceDisconnected">>
    /\ fromRadio = Decoded(NoMessage)

----------------------------------------------------------------------------
\* The send invocations.

\* The promise of a send that raised before its first await.
thrownCall(reason) == [seq |-> 0, pc |-> "done", res |-> Rejected(reason), awaits |-> 0]

\* A send suspended in `await this.queue.processQueue(...)` for the entry it pushed.
drainingCall(seq) == [seq |-> seq, pc |-> "drain", res |-> Unsettled, awaits |-> 0]

\* A send operation whose effects up to its first await are t is invoked: it
\* has pushed its entry, or its promise is rejected with what it raised.
Invoked(t) ==
    /\ calls' = Append(calls, IF Has(t, "queue.push")
                              THEN drainingCall(Len(futures) + 1)
                              ELSE thrownCall(t[Len(t)].r))
    /\ Does(t)
    /\ UNCHANGED <<configId, wres>>

\* The session as a whole takes MaxCalls sends in a run.
Invoke(t) == Len(calls) < MaxCalls /\ Invoked(t)

SendPacket(payloadLen, portNum, destination, echoResponse, seed) ==
    Invoke(sendPacket(payloadLen, portNum, destination, "Primary", echoResponse, seed))

SendText(payloadLen, destination, seed) ==
    Invoke(sendText(payloadLen, destination, seed))

Configure(seed) == Invoke(configure(seed))

\* A synchronous handler that starts no send.
Handle(t) ==
    /\ Does(t)
    /\ calls' = settle(calls, futures')
    /\ UNCHANGED <<configId, wres>>

Complete == Handle(complete)

\* A fromRadio message arrives.
HandleFromRadio(m) == Handle(handleFromRadio(m, 0))

\* A `rebooted` message arrives: handleFromRadio starts a configure() of its own.
HandleRebooted(seed) == Invoke(handleFromRadio(Rebooted, seed))

\* updateDeviceStatus is public: a transport adapter, or any caller, reports a
\* status.
UpdateDeviceStatus(status) ==
    /\ Len(statusLog) < MaxStatusLog
    /\ Handle(updateDeviceStatus(status))

----------------------------------------------------------------------------
\* The edit session: setConfig and commitEditSettings.

\* The session takes MaxEdits promises of edit operations in a run.
MaxEdits == 3

\* The id seeds of the edit operations.
EditSeeds == {0, 5}

\* The promise of a call whose effects up to its first await are t.
callOf(t) == IF Has(t, "queue.push") THEN drainingCall(Len(futures) + 1)
             ELSE thrownCall(t[Len(t)].r)

\* A setConfig suspended in `await this.beginEditSettings()`, the promise of
\* beginEditSettings being calls[b].
awaitingCall(b) == [seq |-> 0, pc |-> "begin", res |-> Unsettled, awaits |-> b]

\* setConfig is called.  With no edit session open it calls beginEditSettings
\* and awaits its promise; else it sends its request at once.
SetConfig(len, seed) ==
    IF setConfigBegins
    THEN LET t == beginEditSettings(seed) IN
         /\ Len(calls) + 2 <= MaxEdits
         /\ calls' = calls \o <<callOf(t), awaitingCall(Len(calls) + 1)>>
         /\ Does(t)
         /\ UNCHANGED <<configId, wres>>
    ELSE /\ Len(calls) < MaxEdits
         /\ Invoked(setConfigRequest(len, seed))

\* A setConfig that goes on to its request whatever became of beginEditSettings.
setConfigGoesOnAnyway(b) == TRUE

\* `await this.beginEditSettings()`: setConfig goes on when the promise, here
\* that of calls[b], is fulfilled; a rejection is raised in setConfig.
setConfigGoesOn(b) == calls[b].res.st = "resolved"

\* The promise of beginEditSettings has settled and the setConfig awaiting it
\* goes on: rejected, setConfig rejects with the same reason and sends
\* nothing; resolved, setConfig sends its request.
SetConfigResume(c, len, seed) ==
    /\ c \in 1..Len(calls)
    /\ calls[c].pc = "begin"
    /\ calls[calls[c].awaits].pc = "done"
    /\ LET b == calls[c].awaits IN
       IF ~setConfigGoesOn(b)
       THEN /\ calls' = [calls EXCEPT ![c] = [@ EXCEPT !.pc = "done", !.res = calls[b].res]]
            /\ UNCHANGED <<session, configId, queue, futures, slot, writing, wres, written>>
       ELSE LET t == setConfigRequest(len, seed) IN
            /\ calls' = [calls EXCEPT ![c] = [callOf(t) EXCEPT !.awaits = b]]
            /\ Does(t)
            /\ UNCHANGED <<configId, wres>>

\* commitEditSettings is called.
CommitEditSettings(seed) ==
    /\ Len(calls) < MaxEdits
    /\ Invoked(commitEditSettings(seed))

\* One of the operations of SelfOperations is called.
SelfOperation(op, len, seed) == Invoke(selfOperation(op, len, seed))

\* getMetadata is called.
GetMetadata(nodeNum, seed) == Invoke(getMetadata(nodeNum, seed))

----------------------------------------------------------------------------
\* The transport and the continuation of processQueue.

\* A write callback that calls writeToRadio without awaiting it.
callbackNotAwaited(s) == FALSE

\* The write callback sendRaw hands to processQueue awaits writeToRadio: its
\* promise is pending as long as the transport write of the frame is.
callbackPending(s) == s \in writing

\* The transport completes a write, with success or with an I/O error.
TransportDone(s, ok) ==
    /\ s \in writing
    /\ writing' = writing \ {s}
    /\ wres' = IF s = slot THEN (IF ok THEN "ok" ELSE "fail") ELSE wres
    /\ UNCHANGED <<session, configId, queue, futures, slot, written, calls>>

\* The write callback has settled and processQueue goes on: a failed write
\* turns the entry just sent into Errored with a transport error; the slot is
\* free; the next Pending entry, if any, is handed to the write callback, and
\* with none left every processQueue call returns, its send going on to
\* `return this.queue.wait(id)`.
DrainResume ==
    /\ slot # 0
    /\ ~callbackPending(slot)
    /\ LET k == idxOf(queue, slot)
           failed == wres = "fail" /\ k # 0 /\ queue[k].state = "Sent"
           S0 == [Handled EXCEPT
                    !.queue = IF failed THEN [@ EXCEPT ![k].state = "Errored"] ELSE @,
                    !.futures = IF failed
                                THEN [@ EXCEPT ![slot] = Rejected("TransportError")]
                                ELSE @,
                    !.slot = 0]
           S == drainStart(S0)
       IN  /\ queue' = S.queue
           /\ futures' = S.futures
           /\ slot' = S.slot
           /\ writing' = S.writing
           /\ written' = S.written
           /\ calls' = IF S.slot = 0
                       THEN settle([c \in 1..Len(calls) |->
                                       IF calls[c].pc = "drain"
                                       THEN [calls[c] EXCEPT !.pc = "wait"]
                                       ELSE calls[c]], S.futures)
                       ELSE calls
    /\ wres' = "none"
    /\ UNCHANGED <<session, configId>>

----------------------------------------------------------------------------
Next ==
    \/ \E len \in PayloadLens, port \in SendPorts, dest \in Destinations,
          echo \in BOOLEAN, seed \in Seeds : SendPacket(len, port, dest, echo, seed)
    \/ \E len \in PayloadLens, dest \in Destinations, seed \in Seeds :
          SendText(len, dest, seed)
    \/ \E seed \in Seeds : Configure(seed)
    \/ Complete
    \/ \E m \in Inbound : HandleFromRadio(m)
    \/ \E seed \in Seeds : HandleRebooted(seed)
    \/ \E status \in DeviceStatuses : UpdateDeviceStatus(status)
    \/ \E len \in ConfigLens, seed \in EditSeeds : SetConfig(len, seed)
    \/ \E c \in 1..MaxEdits, len \in ConfigLens, seed \in EditSeeds :
          SetConfigResume(c, len, seed)
    \/ \E seed \in EditSeeds : CommitEditSettings(seed)
    \/ \E op \in SelfOperations, len \in ConfigLens, seed \in EditSeeds :
          SelfOperation(op, len, seed)
    \/ \E n \in RemoteNodes, seed \in EditSeeds : GetMetadata(n, seed)
    \/ \E s \in writing, ok \in BOOLEAN : TransportDone(s, ok)
    \/ DrainResume

Spec == Init /\ [][Next]_vars

----------------------------------------------------------------------------
\* Parts of the behaviour, each a restriction of Next to some of the
\* operations and inputs.

\* The transport side, common to all.
Transport ==
    \/ \E s \in writing, ok \in BOOLEAN : TransportDone(s, ok)
    \/ DrainResume

\* The transmit pipeline: text broadcasts, the routing replies, complete().
NextQueue ==
    \/ \E seed \in Seeds \ {0} :
          SendText(MaxFrameLen - PacketOverhead - RxTimeLen, Destination("broadcast", 0), seed)
    \/ \E m \in RoutingInbound : HandleFromRadio(m)
    \/ Complete
    \/ Transport

SpecQueue == Init /\ [][NextQueue]_vars

\* The order of transmission: a burst of text broadcasts under one id, its
\* routing replies, complete().
SendTextBurst(seed) ==
    /\ Len(calls) < MaxBurst
    /\ Invoked(sendText(MaxFrameLen - PacketOverhead - RxTimeLen, Destination("broadcast", 0), seed))

BurstSeeds == {5}

NextOrder ==
    \/ \E seed \in BurstSeeds : SendTextBurst(seed)
    \/ \E seed \in BurstSeeds :
          \/ HandleFromRadio(AckMessage(generateRandId(seed)))
          \/ \E r \in ErrorReasons : HandleFromRadio(ErrorMessage(generateRandId(seed), r))
    \/ Complete
    \/ Transport

SpecOrder == Init /\ [][NextOrder]_vars

\* The packet ids: sends whose random words include the smallest ones.
RandSeeds == {0, 1, 4, 5, 9}

NextRand ==
    \/ \E seed \in RandSeeds : SendTextBurst(seed)
    \/ Transport

SpecRand == Init /\ [][NextRand]_vars

\* The send operations on every input, and the myInfo message.  One seed the
\* generator rejects and one it accepts.
SendSeeds == {0, 5}

NextSend ==
    \/ \E len \in PayloadLens, port \in SendPorts, dest \in Destinations,
          echo \in BOOLEAN, seed \in SendSeeds : SendPacket(len, port, dest, echo, seed)
    \/ \E len \in PayloadLens, dest \in Destinations, seed \in SendSeeds :
          SendText(len, dest, seed)
    \/ \E n \in NodeNums : HandleFromRadio(MyInfoMessage(n))
    \/ \E s \in writing : TransportDone(s, TRUE)
    \/ DrainResume

SpecSend == Init /\ [][NextSend]_vars

\* The configuration lifecycle.
NextConfig ==
    \/ \E seed \in Seeds : Configure(seed)
    \/ \E m \in ConfigInbound : HandleFromRadio(m)
    \/ \E seed \in Seeds : HandleRebooted(seed)
    \/ Transport

SpecConfig == Init /\ [][NextConfig]_vars

\* The configuration lifecycle on a transport that completes every write it
\* was given, with success or with an error, and a runtime that runs the
\* continuation of every settled promise.  What the radio sends, and when, is
\* not up to the program.
SpecConfigFair == SpecConfig /\ WF_vars(Transport)

\* The device status: the operations and messages that set it, and the
\* statuses reported through updateDeviceStatus.
NextStatus ==
    \/ \E seed \in SendSeeds : Configure(seed)
    \/ \E id \in {LockstepId, LockstepId + 1} : HandleFromRadio(ConfigCompleteMessage(id))
    \/ \E seed \in SendSeeds : HandleRebooted(seed)
    \/ \E status \in DeviceStatuses : UpdateDeviceStatus(status)

SpecStatus == Init /\ [][NextStatus]_vars

\* The edit session: setConfig, commitEditSettings, the routing replies to
\* their requests, complete().
NextEdit ==
    \/ \E len \in ConfigLens, seed \in EditSeeds : SetConfig(len, seed)
    \/ \E c \in 1..MaxEdits, len \in ConfigLens, seed \in EditSeeds :
          SetConfigResume(c, len, seed)
    \/ \E seed \in EditSeeds : CommitEditSettings(seed)
    \/ \E seed \in EditSeeds \ {0} :
          \/ HandleFromRadio(AckMessage(generateRandId(seed)))
          \/ HandleFromRadio(ErrorMessage(generateRandId(seed), "TIMEOUT"))
    \/ Complete
    \/ \E s \in writing : TransportDone(s, TRUE)
    \/ DrainResume

SpecEdit == Init /\ [][NextEdit]_vars

\* The administrative operations, after a myInfo message or before it.
NextAdmin ==
    \/ \E op \in SelfOperations, len \in ConfigLens, seed \in EditSeeds :
          SelfOperation(op, len, seed)
    \/ \E n \in RemoteNodes, seed \in EditSeeds : GetMetadata(n, seed)
    \/ \E len \in ConfigLens, seed \in EditSeeds : SetConfig(len, seed)
    \/ \E c \in 1..MaxEdits, len \in ConfigLens, seed \in EditSeeds :
          SetConfigResume(c, len, seed)
    \/ \E seed \in EditSeeds : CommitEditSettings(seed)
    \/ \E n \in NodeNums : HandleFromRadio(MyInfoMessage(n))
    \/ \E seed \in EditSeeds \ {0} : HandleFromRadio(AckMessage(generateRandId(seed)))
    \/ \E s \in writing : TransportDone(s, TRUE)
    \/ DrainResume

SpecAdmin == Init /\ [][NextAdmin]_vars

\* The inbound stream: mesh packets of every kind and myInfo, while texts are
\* sent.
InboundSeeds == {5}

InboundPackets == RoutingInbound \cup PacketInbound \cup RouteInbound

NextInbound ==
    \/ \E seed \in InboundSeeds :
          SendText(MaxFrameLen - PacketOverhead - RxTimeLen, Destination("broadcast", 0), seed)
    \/ \E m \in InboundPackets : HandleFromRadio(m)
    \/ \E n \in NodeNums : HandleFromRadio(MyInfoMessage(n))
    \/ \E s \in writing : TransportDone(s, TRUE)
    \/ DrainResume

SpecInbound == Init /\ [][NextInbound]_vars

----------------------------------------------------------------------------
\* Properties of the transmit pipeline (SpecQueue).

\* The state of the entry a send pushed, "Dropped" once clear() removed it.
stateOf(s) == IF idxOf(queue, s) = 0 THEN "Dropped" ELSE queue[idxOf(queue, s)].state

\* The id under which a send pushed its entry; 0 once the entry is dropped.
idOf(s) == IF idxOf(queue, s) = 0 THEN 0 ELSE queue[idxOf(queue, s)].id

\* The sends that pushed an entry.
Sends == {c \in 1..Len(calls) : calls[c].seq # 0}

\* A promise, once settled, keeps its outcome: the waiters and the sends.
SettledOnce ==
    /\ \A s \in 1..Len(futures) : futures[s].st # "pending" => futures'[s] = futures[s]
    /\ \A c \in 1..Len(calls) : calls[c].pc = "done" => calls'[c] = calls[c]

\* A send's promise is the waiter of its entry: pending while the send awaits
\* it, and settled the same way.
FutureOfSend ==
    \A c \in Sends :
        /\ calls[c].pc = "wait" => futures[calls[c].seq].st = "pending"
        /\ calls[c].pc = "done" => calls[c].res = futures[calls[c].seq]
        /\ calls[c].pc # "done" => calls[c].res = Unsettled

\* C1: when a ROUTING_APP packet with errorReason NONE and requestId i arrives,
\* the waiter of every transmitted, unsettled entry sent under i resolves with i,
\* and a send already awaiting that waiter resolves with i in the same step; the
\* message settles nothing else, so a second ack of i changes neither the queue
\* nor any promise; and a settled promise never changes.
C1_AckResolvesOnce ==
    [][/\ SettledOnce
       /\ FutureOfSend'
       /\ \A i \in Ids :
            HandleFromRadio(AckMessage(i)) =>
                /\ \A c \in Sends :
                     LET s == calls[c].seq IN
                     IF idOf(s) = i /\ stateOf(s) = "Sent"
                     THEN /\ futures'[s] = Resolved(i)
                          /\ calls[c].pc = "wait" =>
                                 calls'[c].pc = "done" /\ calls'[c].res = Resolved(i)
                     ELSE futures'[s] = futures[s] /\ calls'[c] = calls[c]
                /\ (\A c \in Sends : idOf(calls[c].seq) = i => stateOf(calls[c].seq) # "Sent")
                      => UNCHANGED <<queue, futures, calls>>]_vars

\* A send under id i has resolved with i, its entry Acked by a routing packet.
C1_Witness ==
    \E c \in Sends :
        /\ calls[c].pc = "done"
        /\ calls[c].res = Resolved(idOf(calls[c].seq))
        /\ stateOf(calls[c].seq) = "Acked"
        /\ fromRadio.case = "packet"

\* C2: when a ROUTING_APP packet with an errorReason r other than NONE and
\* requestId i arrives, every entry sent under i that is not yet settled becomes
\* Errored and its waiter rejects with r, as does a send awaiting it; an Errored
\* entry stays Errored and a rejected promise never resolves.
C2_ErrorRejects ==
    [][/\ \A s \in 1..Len(futures) :
            /\ futures[s].st = "rejected" => futures'[s].st = "rejected"
            /\ stateOf(s) = "Errored" => stateOf(s)' = "Errored"
       /\ \A c \in Sends : calls[c].res.st = "rejected" => calls'[c].res = calls[c].res
       /\ \A i \in Ids, r \in ErrorReasons :
            HandleFromRadio(ErrorMessage(i, r)) =>
                \A c \in Sends :
                    LET s == calls[c].seq IN
                    (idOf(s) = i /\ stateOf(s) \in {"Pending", "Sent"}) =>
                        /\ stateOf(s)' = "Errored"
                        /\ futures'[s] = Rejected(r)
                        /\ calls[c].pc = "wait" =>
                               calls'[c].pc = "done" /\ calls'[c].res = Rejected(r)]_vars

\* A send has rejected with a routing error, its entry Errored.
C2_Witness ==
    \E c \in Sends, r \in ErrorReasons :
        /\ calls[c].pc = "done"
        /\ calls[c].res = Rejected(r)
        /\ stateOf(calls[c].seq) = "Errored"

\* C13: no two entries of the queue have the same id.
C13_OneEntryPerId ==
    \A j, k \in 1..Len(queue) : j # k => queue[j].id # queue[k].id

Cancelled == Rejected("Cancelled")

C15_UnknownAckIgnored ==
    [][\A i \in Ids :
          ((\A k \in 1..Len(queue) : queue[k].id # i) /\ HandleFromRadio(AckMessage(i))) =>
              /\ ~Threw(handleFromRadio(AckMessage(i), 0))
              /\ UNCHANGED <<queue, futures, calls, slot, writing, written>>]_vars

\* The last message was a routing packet for an id no entry has, and a
\* transmitted entry still waits for its own ack, its send for the waiter.
C15_Witness ==
    /\ fromRadio.case = "packet"
    /\ \A k \in 1..Len(queue) : queue[k].id # fromRadio.value
    /\ \E c \in Sends :
          /\ calls[c].pc = "wait"
          /\ stateOf(calls[c].seq) = "Sent"
          /\ futures[calls[c].seq] = Unsettled

----------------------------------------------------------------------------
\* Properties of the send operations (SpecSend).

TooLarge == Rejected("Message longer than 512 bytes, it will not be sent!")

\* The send invoked in this step.
newCall == calls'[Len(calls')]

\* C3: a sendPacket (a sendText is the sendPacket of a text packet with
\* echoResponse) whose serialized frame is longer than 512 bytes is rejected, with the payload-too-large error whenever a packet id
\* could be drawn (the id is drawn before the frame is built), and leaves the
\* queue and the transport as they were; a frame of 512 bytes or less is pushed
\* onto the queue under the packet's id and its send goes on.
C3_OversizeRejected ==
    [][Len(calls') > Len(calls) =>
       \A len \in PayloadLens, port \in SendPorts, dest \in Destinations,
          echo \in BOOLEAN, seed \in SendSeeds :
          SendPacket(len, port, dest, echo, seed) =>
              IF encodedLen(len, echo) > MaxFrameLen
              THEN /\ UNCHANGED <<queue, futures, slot, writing, written>>
                   /\ newCall.pc = "done" /\ newCall.res.st = "rejected"
                   /\ ~randFails(seed) => newCall.res = TooLarge
              ELSE ~randFails(seed) =>
                   /\ Len(queue') = Len(queue) + 1
                   /\ queue'[Len(queue')].id = generateRandId(seed)
                   /\ queue'[Len(queue')].state \in {"Pending", "Sent"}
                   /\ newCall = drainingCall(queue'[Len(queue')].seq)]_vars

\* An oversize send was rejected with nothing queued or written, and a send
\* after it, of a frame within the limit, was accepted.
C3_Witness ==
    /\ Len(calls) = 2
    /\ calls[1].res = TooLarge
    /\ calls[2].seq = 1
    /\ Len(queue) = 1
    /\ written = <<1>>

\* The first position of an effect of t with one of the names, 0 if none.
firstOf(t, names) ==
    IF \E i \in 1..Len(t) : t[i].e \in names
    THEN CHOOSE i \in 1..Len(t) : t[i].e \in names /\ \A j \in 1..(i - 1) : t[j].e \notin names
    ELSE 0

\* C6: a sendPacket with echoResponse (a sendText is the sendPacket of a text
\* packet with echoResponse) that has drawn its id
\* passes the packet to the demultiplexer (onMeshPacket) and dispatches the
\* typed event of a text packet (onMessagePacket), both carrying the packet
\* being sent, before it pushes the frame, starts the drain that writes it, or
\* raises; and the promise of the send is not resolved in that step.
C6_EchoBeforeSend ==
    [][Len(calls') > Len(calls) =>
       \A len \in PayloadLens, port \in SendPorts, dest \in Destinations, seed \in SendSeeds :
          (~randFails(seed) /\ SendPacket(len, port, dest, TRUE, seed)) =>
              LET t == sendPacket(len, port, dest, "Primary", TRUE, seed)
                  sending == firstOf(t, {"queue.push", "queue.processQueue", "throw"})
                  heard == firstOf(t, {"onMeshPacket"})
                  typed == firstOf(t, {"onMessagePacket"})
              IN  /\ sending # 0
                  /\ 0 < heard /\ heard < sending
                  /\ t[heard].m.packet = meshPacketOf(port, dest, "Primary", seed)
                  /\ port = "TEXT_MESSAGE_APP" =>
                        /\ 0 < typed /\ typed < sending
                        /\ t[typed].m.packet = meshPacketOf(port, dest, "Primary", seed)
                  /\ newCall.res.st # "resolved"]_vars

\* A text message has been sent: it was echoed and its frame is with the transport.
C6_Witness ==
    \E k \in 1..Len(queue) :
        /\ queue[k].data.packet.portnum = "TEXT_MESSAGE_APP"
        /\ queue[k].state = "Sent"
        /\ queue[k].seq \in writing

\* C7: the packet sendPacket builds, as echoed and as pushed, has `to`
\* 0xFFFFFFFF for "broadcast", the stored my-node number for "self" and n for
\* node n, and `from` the stored my-node number; the stored number changes only
\* when a myInfo message arrives, to the number it carries.
C7_ToAndFrom ==
    [][/\ \A len \in PayloadLens, port \in SendPorts, dest \in Destinations,
            echo \in BOOLEAN, seed \in SendSeeds :
            (Len(calls') > Len(calls) /\ ~randFails(seed)
               /\ SendPacket(len, port, dest, echo, seed)) =>
                LET t == sendPacket(len, port, dest, "Primary", echo, seed)
                    to == CASE dest.kind = "broadcast" -> broadcastNum
                            [] dest.kind = "self" -> myNodeNum
                            [] dest.kind = "node" -> dest.num
                IN  /\ \A i \in 1..Len(t) :
                         t[i].m.case = "packet" =>
                             t[i].m.packet.to = to /\ t[i].m.packet.from = myNodeNum
                    /\ Len(queue') > Len(queue) =>
                         /\ queue'[Len(queue')].data.packet.to = to
                         /\ queue'[Len(queue')].data.packet.from = myNodeNum
       /\ \A n \in NodeNums : HandleFromRadio(MyInfoMessage(n)) => myNodeNum' = n
       /\ myNodeNum' # myNodeNum => \E n \in NodeNums : HandleFromRadio(MyInfoMessage(n))]_vars

\* After a myInfo message a packet to "self" and a packet to a node are queued,
\* both from the number the message carried.
C7_Witness ==
    /\ myNodeNum \in NodeNums
    /\ \E j, k \in 1..Len(queue) :
          /\ queue[j].data.packet.to = myNodeNum
          /\ queue[j].data.packet.from = myNodeNum
          /\ queue[k].data.packet.to \in RemoteNodes
          /\ queue[k].data.packet.from = myNodeNum

----------------------------------------------------------------------------
\* Properties of the order of transmission (SpecOrder).

\* C4: the frames are handed to the write callback in the order they were
\* pushed: the push numbers of the written frames increase, the queue keeps the
\* entries in push order, and an entry still Pending was pushed after every
\* frame written so far.
C4_WriteOrder ==
    /\ \A a, b \in 1..Len(written) : a < b => written[a] < written[b]
    /\ \A j, k \in 1..Len(queue) : j < k => queue[j].seq < queue[k].seq
    /\ \A k \in 1..Len(queue) :
          queue[k].state = "Pending" => \A a \in 1..Len(written) : written[a] < queue[k].seq

\* Three frames were queued together and written one after the other.
C4_Witness == Len(written) >= 3

\* C5: at most one transport write is in flight, that of the frame in the
\* queue's slot; an entry waits as Pending only while the slot is taken.
C5_OneWrite ==
    /\ Cardinality(writing) <= 1
    /\ writing \subseteq {slot}
    /\ PendingIdx(queue) # {} => slot # 0

\* Two sends are suspended in processQueue while one write is in flight and
\* the frame of the other waits.
C5_Witness ==
    /\ Cardinality({c \in Sends : calls[c].pc = "drain"}) >= 2
    /\ writing # {}
    /\ PendingIdx(queue) # {}

----------------------------------------------------------------------------
\* Properties of the configuration lifecycle (SpecConfig).

WantConfig == Message("wantConfigId", configId, NoPacket)

NewSession == <<"DeviceDisconnected">>

Requested == <<"DeviceDisconnected", "DeviceConfiguring">>

Completed == <<"DeviceDisconnected", "DeviceConfiguring", "DeviceConfigured">>

\* The step pushed one entry, a wantConfigId frame carrying configId.
PushedWantConfig ==
    /\ Len(queue') = Len(queue) + 1
    /\ queue'[Len(queue')].data = WantConfig
    /\ queue'[Len(queue')].state \in {"Pending", "Sent"}

\* C8: in a new session configure() makes the status Configuring and, its
\* packet id drawn, pushes a wantConfigId frame carrying configId; a myInfo
\* message stores the number it carries and leaves the status alone; a
\* configCompleteId equal to configId then makes the observed statuses exactly
\* Disconnected, Configuring, Configured, the stored number kept; and nothing
\* but configure(), `rebooted` and configCompleteId adds to the observed statuses.
C8_ConfigureHandshake ==
    [][/\ \A seed \in Seeds :
            (statusLog = NewSession /\ Configure(seed)) =>
                /\ deviceStatus' = "DeviceConfiguring"
                /\ statusLog' = Requested
                /\ ~randFails(seed) => PushedWantConfig
       /\ \A n \in NodeNums :
            HandleFromRadio(MyInfoMessage(n)) => myNodeNum' = n /\ statusLog' = statusLog
       /\ (statusLog = Requested /\ HandleFromRadio(ConfigCompleteMessage(configId))) =>
            /\ deviceStatus' = "DeviceConfigured"
            /\ statusLog' = Completed
            /\ myNodeNum' = myNodeNum
       /\ statusLog' # statusLog =>
            \/ \E seed \in Seeds : Configure(seed) \/ HandleRebooted(seed)
            \/ \E m \in ConfigInbound : m.case = "configCompleteId" /\ HandleFromRadio(m)]_vars

\* The handshake is done: the frame was pushed, myInfo stored, and the
\* expected configCompleteId was the last message.
C8_Witness ==
    /\ statusLog = Completed
    /\ myNodeNum \in NodeNums
    /\ Len(queue) = 1 /\ queue[1].data = WantConfig
    /\ fromRadio = Decoded(ConfigCompleteMessage(configId))

\* C9: a `rebooted` message received while the status is Configured makes the
\* status Configuring in the same step and, the packet id drawn, pushes a new
\* wantConfigId frame carrying the unchanged configId, which is written at once
\* if no write is in flight and waits for the slot otherwise; a configCompleteId
\* received while Configuring makes the status Configured.
C9_RebootReconfigures ==
    [][/\ \A seed \in Seeds :
            (deviceStatus = "DeviceConfigured" /\ HandleRebooted(seed)) =>
                /\ deviceStatus' = "DeviceConfiguring"
                /\ isConfigured' = FALSE
                /\ statusLog' = Append(statusLog, "DeviceConfiguring")
                /\ configId' = configId
                /\ ~randFails(seed) =>
                     /\ PushedWantConfig
                     /\ IF slot = 0
                        THEN written' = Append(written, queue'[Len(queue')].seq)
                        ELSE queue'[Len(queue')].state = "Pending" /\ slot' = slot
       /\ \A m \in ConfigInbound :
            (m.case = "configCompleteId" /\ deviceStatus = "DeviceConfiguring"
               /\ HandleFromRadio(m)) =>
                deviceStatus' = "DeviceConfigured" /\ isConfigured' = TRUE]_vars

\* After a reboot of the configured device a second wantConfigId frame was
\* written and the configuration completed again.
C9_Witness ==
    /\ statusLog = Completed \o <<"DeviceConfiguring", "DeviceConfigured">>
    /\ Len(written) = 2
    /\ \A k \in 1..Len(queue) : queue[k].data = WantConfig

\* C10: a configCompleteId makes the status Configured whatever id it carries,
\* and no step changes configId.
C10_AnyIdCompletes ==
    [][/\ configId' = configId
       /\ \A m \in ConfigInbound :
            (m.case = "configCompleteId" /\ HandleFromRadio(m)) =>
                /\ deviceStatus' = "DeviceConfigured"
                /\ isConfigured' = TRUE]_vars

\* A configCompleteId with an id other than configId ended the handshake.
C10_Witness ==
    /\ fromRadio.case = "configCompleteId"
    /\ fromRadio.value # configId
    /\ statusLog = Completed
    /\ deviceStatus = "DeviceConfigured"

----------------------------------------------------------------------------
\* Properties of the device status (SpecStatus).

\* C11: a status that replaces Configured is Configuring or Disconnecting.
C11_LeavesConfiguredInOrder ==
    [][(deviceStatus = "DeviceConfigured" /\ deviceStatus' # "DeviceConfigured") =>
          deviceStatus' \in {"DeviceConfiguring", "DeviceDisconnecting"}]_vars

----------------------------------------------------------------------------
\* Termination of the queue entries (SpecConfigFair).

\* C12: an entry that is Pending or Sent is later Acked, Errored or removed.
C12_EntriesTerminate ==
    \A s \in 1..(MaxCalls + 1) :
        (stateOf(s) \in {"Pending", "Sent"}) ~> (stateOf(s) \in {"Acked", "Errored", "Dropped"})

----------------------------------------------------------------------------
\* Properties of the packet ids (SpecRand).

\* C16: the id generateRandId returned for a send, the id of its queue entry,
\* is at least 1 and less than 10^9.
C16_IdNeverZero ==
    \A k \in 1..Len(queue) : queue[k].id >= 1 /\ queue[k].id < 1000000000

----------------------------------------------------------------------------
\* Properties of the edit session (SpecEdit).

\* The step pushed one entry, an ADMIN_APP packet addressed to this node.
PushedAdminRequest ==
    /\ Len(futures') = Len(futures) + 1
    /\ queue'[Len(queue')].seq = Len(futures')
    /\ queue'[Len(queue')].data.packet.portnum = "ADMIN_APP"
    /\ queue'[Len(queue')].data.packet.to = myNodeNum

\* C17: a setConfig called with the pending-changes flag false makes the flag
\* true and, the packet id drawn, pushes the beginEditSettings request as an
\* entry of its own, its own request not yet pushed; the request of a
\* setConfig that opened an edit session is pushed after the beginEditSettings
\* request; a setConfig called with the flag true pushes at most its own
\* request and awaits no beginEditSettings; and the flag becomes false only in
\* a commitEditSettings.
C17_EditSession ==
    [][/\ \A len \in ConfigLens, seed \in EditSeeds :
            (~pendingSettingsChanges /\ SetConfig(len, seed)) =>
                /\ pendingSettingsChanges'
                /\ calls'[Len(calls')] = awaitingCall(Len(calls) + 1)
                /\ ~randFails(seed) =>
                      /\ PushedAdminRequest
                      /\ calls'[Len(calls) + 1] = drainingCall(Len(futures'))
       /\ \A c \in 1..Len(calls') :
            (calls'[c].awaits # 0 /\ calls'[c].seq # 0) =>
                /\ calls'[calls'[c].awaits].seq # 0
                /\ calls'[calls'[c].awaits].seq < calls'[c].seq
                /\ futures'[calls'[calls'[c].awaits].seq].st = "resolved"
       /\ \A len \in ConfigLens, seed \in EditSeeds :
            (pendingSettingsChanges /\ SetConfig(len, seed)) =>
                /\ pendingSettingsChanges'
                /\ Len(calls') = Len(calls) + 1
                /\ calls'[Len(calls')].awaits = 0
                /\ Len(futures') <= Len(futures) + 1
                /\ ~randFails(seed) => PushedAdminRequest
       /\ (pendingSettingsChanges /\ ~pendingSettingsChanges') =>
            \E seed \in EditSeeds : CommitEditSettings(seed)]_vars

\* A setConfig opened the edit session and, the beginEditSettings request
\* acknowledged, pushed its own request; a second setConfig, called with the
\* flag true, pushed its request alone.
C17_Witness ==
    /\ pendingSettingsChanges
    /\ Len(calls) = 3
    /\ calls[1].seq = 1 /\ calls[1].res = Resolved(generateRandId(5))
    /\ calls[2].awaits = 1 /\ calls[2].seq = 2
    /\ calls[3].awaits = 0 /\ calls[3].seq = 3
    /\ Len(futures) = 3

----------------------------------------------------------------------------
\* The failure of a transport write (SpecOrder).

TransportFailure == Rejected("TransportError")

\* C18: the failure of the transport write of a frame reaches the drain that
\* awaits it; when the drain goes on, the entry of that frame, if still Sent,
\* is Errored and its waiter rejected with the transport error, the send of
\* that entry rejecting with the same error once it awaits the waiter; no
\* frame is written twice; and the next Pending entry, if any, is written.
C18_WriteFailure ==
    [][/\ \A s \in writing :
            (TransportDone(s, FALSE) /\ ~(TransportDone(s, TRUE))) =>
                slot = s /\ wres' = "fail"
       /\ \A s \in {slot} :
          (DrainResume /\ wres = "fail" /\ stateOf(s) = "Sent") =>
            /\ stateOf(s)' = "Errored"
            /\ futures'[s] = TransportFailure
            /\ PendingIdx(queue) # {} =>
                  /\ written' = Append(written, queue[nextPending(queue)].seq)
                  /\ queue'[nextPending(queue)].state = "Sent"
                  /\ writing' = {queue[nextPending(queue)].seq}
            /\ PendingIdx(queue) = {} => written' = written /\ slot' = 0
       /\ \A a, b \in 1..Len(written') : a # b => written'[a] # written'[b]
       /\ \A c \in 1..Len(calls') :
            (calls'[c].seq # 0 /\ calls'[c].pc \in {"wait", "done"}
               /\ futures'[calls'[c].seq] = TransportFailure) =>
                calls'[c].pc = "done" /\ calls'[c].res = TransportFailure]_vars

\* The write of a frame failed: its entry is Errored, its send rejected with
\* the transport error, and a frame pushed later was written after it.
C18_Witness ==
    \E c \in Sends, a \in 1..Len(written) :
        /\ written[a] = calls[c].seq
        /\ stateOf(calls[c].seq) = "Errored"
        /\ calls[c].pc = "done" /\ calls[c].res = TransportFailure
        /\ a < Len(written)

----------------------------------------------------------------------------
\* The failure of the id generator (SpecEdit).

RandomnessUnavailable == Rejected("Cannot generate CSPRN")

\* C19: a step in which the promise of a send is rejected with the id
\* generator's error adds no queue entry, writes nothing to the transport,
\* dispatches no event, and leaves the device status, the my-node number and
\* the pending-changes flag as they were.
C19_GeneratorFailureAborts ==
    [][(\E c \in 1..Len(calls') :
            /\ calls'[c].res = RandomnessUnavailable
            /\ c > Len(calls) \/ calls[c].res # RandomnessUnavailable) =>
          UNCHANGED <<queue, futures, written, writing, deviceStatus, statusLog,
                      isConfigured, myNodeNum, pendingSettingsChanges, fromRadio>>]_vars

----------------------------------------------------------------------------
\* Properties of the administrative operations (SpecAdmin).

\* The step pushed one entry, a mesh packet with this port, destination and
\* channel.
PushedPacket(portnum, to, channel) ==
    /\ Len(futures') = Len(futures) + 1
    /\ queue'[Len(queue')].seq = Len(futures')
    /\ queue'[Len(queue')].data.case = "packet"
    /\ queue'[Len(queue')].data.packet.portnum = portnum
    /\ queue'[Len(queue')].data.packet.to = to
    /\ queue'[Len(queue')].data.packet.channel = channel

\* Each operation, its packet id drawn, pushes one mesh packet: those of
\* AdminOperations, setConfig (its beginEditSettings and its own request) and
\* commitEditSettings with port ADMIN_APP, to this node, on Primary;
\* setPosition the same with the port given; getMetadata with port ADMIN_APP,
\* to the node named, on the Admin channel.
AdminRequests(positionPort) ==
    /\ \A op \in SelfOperations, len \in ConfigLens, seed \in EditSeeds \ {0} :
          SelfOperation(op, len, seed) =>
              PushedPacket(IF op = "setPosition" THEN positionPort ELSE "ADMIN_APP",
                           myNodeNum, "Primary")
    /\ \A len \in ConfigLens, seed \in EditSeeds \ {0} :
          SetConfig(len, seed) => PushedPacket("ADMIN_APP", myNodeNum, "Primary")
    /\ \A c \in 1..Len(calls), len \in ConfigLens, seed \in EditSeeds \ {0} :
          (SetConfigResume(c, len, seed) /\ calls[calls[c].awaits].res.st = "resolved") =>
              PushedPacket("ADMIN_APP", myNodeNum, "Primary")
    /\ \A seed \in EditSeeds \ {0} :
          CommitEditSettings(seed) => PushedPacket("ADMIN_APP", myNodeNum, "Primary")
    /\ \A n \in RemoteNodes, seed \in EditSeeds \ {0} :
          GetMetadata(n, seed) => PushedPacket("ADMIN_APP", n, "Admin")

\* C20, as claimed: every named operation, setPosition among them, sends on
\* port ADMIN_APP to this node on Primary, and getMetadata on ADMIN_APP to the
\* node named on the Admin channel.
C20_AllOnAdminPort == [][AdminRequests("ADMIN_APP")]_vars

\* C20, amended: as claimed for every operation but setPosition, which sends
\* a Position on port POSITION_APP, to this node on Primary.
C20_AdminRequests == [][AdminRequests("POSITION_APP")]_vars

\* With the node number known, setPosition and getMetadata were called.
C20_Witness ==
    /\ myNodeNum \in NodeNums
    /\ Len(queue) = 2
    /\ queue[1].data.packet.portnum = "POSITION_APP"
    /\ queue[1].data.packet.to = myNodeNum
    /\ queue[2].data.packet.portnum = "ADMIN_APP"
    /\ queue[2].data.packet.to \in RemoteNodes
    /\ queue[2].data.packet.channel = "Admin"

----------------------------------------------------------------------------
\* Properties of the inbound demultiplexer (SpecInbound).

\* The events handleDecodedPacket dispatches for the port of a packet.
TypedEvents == {"onMessagePacket", "onPositionPacket", "onRoutingPacket"}

\* How many times the handler whose effects are t does e.
count(t, e) == Cardinality({i \in 1..Len(t) : t[i].e = e})

\* C21: the handler of a fromRadio message that carries a mesh packet
\* dispatches onFromRadio first, then onMeshPacket with that packet, once each,
\* then the heartbeat if there is one, and only then the typed event of the
\* packet's port, if there is one.
C21_InboundOrder ==
    [][\A m \in InboundPackets :
          (fromRadio' = Decoded(m) /\ HandleFromRadio(m)) =>
              LET t == handleFromRadio(m, 0)
                  raw == firstOf(t, {"onFromRadio"})
                  mesh == firstOf(t, {"onMeshPacket"})
                  beat == firstOf(t, {"onMeshHeartbeat"})
                  typed == firstOf(t, TypedEvents)
              IN  /\ raw = 1 /\ count(t, "onFromRadio") = 1
                  /\ mesh = 2 /\ count(t, "onMeshPacket") = 1
                  /\ t[mesh].m.packet = m.packet
                  /\ beat # 0 => beat = 3
                  /\ typed # 0 => /\ mesh < typed /\ beat < typed
                                  /\ t[typed].m.packet = m.packet]_vars

\* With the node number known, the acknowledgement of a text sent was the
\* last message: a packet from another node, with a heartbeat and a typed event.
C21_Witness ==
    /\ myNodeNum \in NodeNums
    /\ \E s \in 1..Len(futures) :
          /\ stateOf(s) = "Acked"
          /\ fromRadio = Decoded(AckMessage(idOf(s)))

\* The queue calls of the ROUTING_APP handler.
QueueCalls == {"queue.processAck", "queue.processError"}

\* C22: the handler of a routing packet with variant errorReason dispatches
\* onRoutingPacket before its one call into the queue (processAck for NONE,
\* processError else, with the packet's requestId), and the sends of entries
\* with that id settle in that step, after the event; the handler of a
\* routeReply or routeRequest calls nothing of the queue and leaves the
\* entries, the waiters and the sends as they were.
C22_RoutingEventFirst ==
    [][/\ \A m \in RoutingInbound :
            (fromRadio' = Decoded(m) /\ HandleFromRadio(m)) =>
                LET t == handleFromRadio(m, 0)
                    routed == firstOf(t, {"onRoutingPacket"})
                    queued == firstOf(t, QueueCalls)
                IN  /\ 0 < routed /\ routed < queued
                    /\ t[routed].m.packet = m.packet
                    /\ t[queued].n = m.packet.requestId
                    /\ t[queued].e = IF m.packet.reason = "NONE" THEN "queue.processAck"
                                     ELSE "queue.processError"
                    /\ count(t, "queue.processAck") + count(t, "queue.processError") = 1
                    /\ \A k \in 1..Len(queue) :
                          (queue[k].id = m.packet.requestId /\ queue[k].state = "Sent") =>
                              /\ queue'[k].state = IF m.packet.reason = "NONE" THEN "Acked"
                                                   ELSE "Errored"
                              /\ futures[queue[k].seq].st = "pending"
                              /\ futures'[queue[k].seq].st # "pending"
       /\ \A m \in RouteInbound :
            (fromRadio' = Decoded(m) /\ HandleFromRadio(m)) =>
                LET t == handleFromRadio(m, 0) IN
                /\ firstOf(t, {"onRoutingPacket"}) # 0
                /\ firstOf(t, QueueCalls) = 0
                /\ UNCHANGED <<queue, futures, calls>>]_vars

\* A routing error settled a send, and a route reply naming the id of another
\* entry still Sent was the last message.
C22_Witness ==
    /\ \E s \in 1..Len(futures) : stateOf(s) = "Errored" /\ futures[s].st = "rejected"
    /\ \E s \in 1..Len(futures) :
          /\ stateOf(s) = "Sent"
          /\ fromRadio = Decoded(Message("packet", 0,
                                         RoutingPacket(idOf(s), "routeReply", "NONE", 9)))

\* A text from the node itself, as the radio reports it.
OwnText(n) ==
    Message("packet", 0, MeshPacket("decoded", n, broadcastNum, 0, "TEXT_MESSAGE_APP",
                                    "Primary", 0, "unset", "NONE"))

Unhandled(m) == m.case = "packet" /\ m.packet.variant \notin {"decoded", "encrypted"}

\* C24: the handler of a mesh packet whose payload variant is neither decoded
\* nor encrypted dispatches no typed event, leaves the device status, the
\* my-node number, the pending-changes flag and the queue as they were, and
\* does not raise.
C24_UnhandledDropped ==
    [][\A m \in InboundPackets :
          (Unhandled(m) /\ fromRadio' = Decoded(m) /\ HandleFromRadio(m)) =>
              LET t == handleFromRadio(m, 0) IN
              /\ firstOf(t, TypedEvents) = 0
              /\ UNCHANGED <<deviceStatus, statusLog, isConfigured, myNodeNum,
                             pendingSettingsChanges, queue, futures, calls>>
              /\ ~Threw(t)]_vars

----------------------------------------------------------------------------
\* Properties of the status field (SpecStatus).

\* C25: in every state, updateDeviceStatus called with the current status
\* dispatches nothing and changes nothing, and called with any status leaves
\* the deviceStatus field equal to it, having dispatched one onDeviceStatus
\* event when the status differed; and no two consecutive onDeviceStatus
\* events observed carry the same status.
C25_NoDuplicateStatus ==
    /\ \A status \in DeviceStatuses :
          LET t == updateDeviceStatus(status)
              S == run(Handled, t)
          IN  /\ S.deviceStatus = status
              /\ status = deviceStatus => t = <<>> /\ S = Handled
              /\ status # deviceStatus =>
                    /\ count(t, "onDeviceStatus") = 1
                    /\ S.statusLog = Append(statusLog, status)
    /\ \A i \in 1..(Len(statusLog) - 1) : statusLog[i] # statusLog[i + 1]
    /\ statusLog[Len(statusLog)] = deviceStatus

\* The status was reported Connected, Disconnected and Connected again: only
\* consecutive duplicates are eliminated.
C25_Witness ==
    /\ Len(statusLog) >= 3
    /\ statusLog[Len(statusLog)] = statusLog[Len(statusLog) - 2]
    /\ deviceStatus = statusLog[Len(statusLog)]

\* C28: the isConfigured flag is true exactly when the device status is
\* DeviceConfigured.
C28_ConfiguredFlag == isConfigured <=> (deviceStatus = "DeviceConfigured")

----------------------------------------------------------------------------
\* The writer of the transport (SpecOrder).

\* The push numbers of the frames handed to writeToRadio so far.
Written == {written[a] : a \in 1..Len(written)}

\* C26: a step that calls writeToRadio calls it once, from the drain, for an
\* entry that was Pending (or is pushed in that step) and was never written
\* before; the entry is then Sent and holds the slot; and every write in
\* flight is that of a frame of the queue.
C26_QueueOnlyWriter ==
    [][/\ written' # written =>
            \E s \in 1..Len(futures') :
                /\ written' = Append(written, s)
                /\ s \notin Written
                /\ stateOf(s) = "Pending" \/ s > Len(futures)
                /\ stateOf(s)' = "Sent"
                /\ slot' = s
                /\ s \in writing'
       /\ writing' \subseteq Written'
       /\ Written' \subseteq 1..Len(futures')]_vars

\* Three frames went through the queue, the write of one of them failed, and
\* none was written again.
C26_Witness ==
    /\ Len(written) = 3 /\ Cardinality(Written) = 3
    /\ \E s \in Written : stateOf(s) = "Errored" /\ futures[s] = TransportFailure
    /\ slot = 0

----------------------------------------------------------------------------
\* The echo of an oversize send (SpecSend).

\* The events of the bus among the effects of a handler.
BusEvents == {"onFromRadio", "onMeshPacket", "onMeshHeartbeat", "onDeviceStatus",
              "onMyNodeInfo", "onPendingSettingsChange", "onConfigPacket"} \cup TypedEvents

\* C27: a sendPacket rejected because its frame is longer than 512 bytes
\* dispatches no event on the bus, with echoResponse or without.
C27_NoEchoWhenTooLarge ==
    [][Len(calls') > Len(calls) =>
       \A len \in PayloadLens, port \in SendPorts, dest \in Destinations,
          echo \in BOOLEAN, seed \in SendSeeds :
          (SendPacket(len, port, dest, echo, seed) /\ newCall.res = TooLarge) =>
              LET t == sendPacket(len, port, dest, "Primary", echo, seed) IN
              firstOf(t, BusEvents) = 0]_vars

----------------------------------------------------------------------------
\* The edit period (SpecEdit).

\* The setConfig calls that have called beginEditSettings.
Beginners == {c \in 1..Len(calls) : calls[c].awaits # 0}

\* The push number of the request of the latest beginEditSettings, 0 when
\* there was none or it pushed nothing.  While the pending-changes flag is
\* true this is the beginEditSettings that made it true.
beginSeq ==
    IF Beginners = {} THEN 0
    ELSE calls[calls[CHOOSE c \in Beginners : \A d \in Beginners : d <= c].awaits].seq

\* C29: while the pending-changes flag is true no setConfig call pushes a
\* beginEditSettings request, and whenever a setConfig request is pushed while
\* the flag is true, the beginEditSettings that made the flag true has pushed
\* its request, earlier.
C29_OneBeginPerPeriod ==
    [][/\ \A len \in ConfigLens, seed \in EditSeeds :
            (pendingSettingsChanges /\ SetConfig(len, seed)) =>
                /\ Beginners' = Beginners
                /\ Len(futures') > Len(futures) =>
                      0 < beginSeq /\ beginSeq < Len(futures')
       /\ \A c \in 1..Len(calls), len \in ConfigLens, seed \in EditSeeds :
            (pendingSettingsChanges /\ SetConfigResume(c, len, seed)
               /\ Len(futures') > Len(futures)) =>
                0 < beginSeq /\ beginSeq < Len(futures')]_vars

\* C30: the request of a setConfig that called beginEditSettings is pushed
\* only once the promise of beginEditSettings is fulfilled, and after the
\* beginEditSettings request; while that promise is pending the setConfig has
\* pushed nothing and is pending; when it is rejected the setConfig is
\* rejected with the same reason in a step that pushes nothing and leaves the
\* pending-changes flag as it was, and never pushes a request.
C30_SetConfigAwaitsBegin ==
    [][/\ \A c \in 1..Len(calls') :
            calls'[c].awaits # 0 =>
                LET b == calls'[c].awaits IN
                /\ calls'[c].seq # 0 =>
                      /\ calls'[b].res.st = "resolved"
                      /\ calls'[b].seq # 0 /\ calls'[b].seq < calls'[c].seq
                /\ calls'[b].res.st = "pending" =>
                      calls'[c].seq = 0 /\ calls'[c].res.st = "pending"
                /\ (calls'[b].res.st = "rejected" /\ calls'[c].pc = "done") =>
                      calls'[c].seq = 0 /\ calls'[c].res = calls'[b].res
       /\ \A c \in 1..Len(calls), len \in ConfigLens, seed \in EditSeeds :
            (calls[c].pc = "begin" /\ SetConfigResume(c, len, seed)
               /\ calls[calls[c].awaits].res.st = "rejected") =>
                /\ UNCHANGED <<queue, futures, written, pendingSettingsChanges>>
                /\ calls'[c].pc = "done"]_vars

\* The beginEditSettings request of a setConfig was answered by a routing
\* error: the setConfig is rejected with it, its request was never pushed, and
\* the pending-changes flag is still true.
C30_Witness ==
    /\ pendingSettingsChanges
    /\ Len(futures) = 1 /\ stateOf(1) = "Errored"
    /\ Len(calls) = 2
    /\ calls[1].res = Rejected("TIMEOUT")
    /\ calls[2].awaits = 1 /\ calls[2].pc = "done" /\ calls[2].seq = 0
    /\ calls[2].res = Rejected("TIMEOUT")

====
